---- MODULE Spec2Model ----
(***************************************************************************)
(* Model of src/update_docker_image.py: the six components                 *)
(* (pull_docker_image, extract_models_from_image,                          *)
(* move_new_models_to_models, build_docker_image, push_docker_image,       *)
(* cleanup_model_files) and the top-level sequence that calls them.        *)
(*                                                                         *)
(* A directory tree is a function from the paths that exist (sequences of  *)
(* names, <<>> being the tree's root) to "dir" or to a file's content.    *)
(* A tree whose domain is empty is a directory that does not exist.        *)
(* Every call the code makes to the Docker daemon or to the filesystem may *)
(* fail; a failure is a nondeterministic branch of the step that makes the *)
(* call.  os.walk is taken to list every directory it visits.              *)
(***************************************************************************)
EXTENDS Integers, Sequences, FiniteSets, TLC

\* ------------------------------------------------------------- bounds
MaxNodes == 3    \* entries (files and directories) of an input tree
MaxEvents == 2   \* events of a push stream
MainNodes == 1   \* entries of an input tree of the top-level sequence

\* names of directory entries, in the order a directory is listed
NameSeq == <<"a", "b">>
Names == {NameSeq[i] : i \in 1..Len(NameSeq)}

\* ------------------------------------------------------------- trees
NoTree == [p \in {} |-> "dir"]
EmptyDir == [p \in {<<>>} |-> "dir"]

Exists(t, p) == p \in DOMAIN t
IsDir(t, p) == p \in DOMAIN t /\ t[p] = "dir"
IsFile(t, p) == p \in DOMAIN t /\ t[p] # "dir"
FilePaths(t) == {p \in DOMAIN t : t[p] # "dir"}
DirPaths(t) == {p \in DOMAIN t : t[p] = "dir"}
Parent(p) == IF p = <<>> THEN <<>> ELSE SubSeq(p, 1, Len(p) - 1)
Prefixes(p) == {SubSeq(p, 1, n) : n \in 0..Len(p)}
Children(t, p) == {q \in DOMAIN t : q # <<>> /\ Parent(q) = p}

\* the names of the files, and of the subdirectories, a listing of p gives
FileNames(t, p) == SelectSeq(NameSeq, LAMBDA n : IsFile(t, Append(p, n)))
DirNames(t, p) == SelectSeq(NameSeq, LAMBDA n : IsDir(t, Append(p, n)))

\* os.makedirs(p, exist_ok=True)
MakedirsOk(t, p) == \A q \in Prefixes(p) : q \in DOMAIN t => t[q] = "dir"
Makedirs(t, p) ==
    [q \in DOMAIN t \cup Prefixes(p) |-> IF q \in DOMAIN t THEN t[q] ELSE "dir"]

\* open(p, "wb") and the write that follows
OpenOk(t, p) == IsDir(t, Parent(p)) /\ p # <<>> /\ ~IsDir(t, p)
WriteFile(t, p, c) == [q \in DOMAIN t \cup {p} |-> IF q = p THEN c ELSE t[q]]

\* os.remove(p), os.rmdir(p)
RemoveNode(t, p) == [q \in DOMAIN t \ {p} |-> t[q]]
RmdirOk(t, p) == IsDir(t, p) /\ Children(t, p) = {}

\* os.walk(top, topdown): the directories in the order they are yielded, each
\* with the files listed in it.  A directory is listed before any step of the
\* loop body touches it or its descendants, and the loop bodies of this
\* program only delete files of directories already yielded, so the listing
\* is that of the tree the walk starts on.
RECURSIVE WalkFrom(_, _, _)
RECURSIVE WalkSubdirs(_, _, _, _)
WalkSubdirs(t, p, names, topdown) ==
    IF names = <<>> THEN <<>>
    ELSE WalkFrom(t, Append(p, Head(names)), topdown)
         \o WalkSubdirs(t, p, Tail(names), topdown)
WalkFrom(t, p, topdown) ==
    LET here == <<[root |-> p, files |-> FileNames(t, p)]>>
        below == WalkSubdirs(t, p, DirNames(t, p), topdown)
    IN IF topdown THEN here \o below ELSE below \o here

\* the input trees: at most n entries below the root, files holding content c
Extensions(t, c) ==
    UNION {{t @@ (Append(p, x) :> k) : k \in {"dir", c}} :
              <<p, x>> \in {y \in DirPaths(t) \X Names : Append(y[1], y[2]) \notin DOMAIN t}}
RECURSIVE TreesUpTo(_, _)
TreesUpTo(n, c) ==
    IF n = 0 THEN {EmptyDir}
    ELSE LET smaller == TreesUpTo(n - 1, c)
         IN smaller \cup UNION {Extensions(t, c) : t \in smaller}

FileRoot == [p \in {<<>>} |-> "old"]

\* ------------------------------------------------------------- archives
\* container.get_archive(input_dir): the entries of the directory's tar, each
\* directory before its contents, every name starting with the root segment
ArchiveRoot == "models"
RECURSIVE TarFrom(_, _)
RECURSIVE TarBelow(_, _, _)
TarBelow(t, p, names) ==
    IF names = <<>> THEN <<>>
    ELSE TarFrom(t, Append(p, Head(names))) \o TarBelow(t, p, Tail(names))
TarFrom(t, p) ==
    <<[name |-> <<ArchiveRoot>> \o p, isdir |-> t[p] = "dir", data |-> t[p]]>>
    \o TarBelow(t, p, SelectSeq(NameSeq, LAMBDA n : Exists(t, Append(p, n))))
ArchivesUpTo(n) ==
    {<<>>} \cup {TarFrom(t, <<>>) : t \in TreesUpTo(n, "img")}
           \cup {TarFrom([p \in {<<>>} |-> "img"], <<>>)}

\* orig_path.split("/", 1): everything after the first "/", or "" for the
\* entry that is the root segment alone
NewPathUnstripped(orig_path) == orig_path
NewPath(orig_path) == IF Len(orig_path) > 1 THEN Tail(orig_path) ELSE <<>>

\* ------------------------------------------------------------- push events
\* an entry of the push stream, as the set of the fields it carries
Events == SUBSET {"status", "id", "error"}

\* ------------------------------------------------------------- state
VARIABLES
    mpc,               \* position of the top-level sequence ("unit": a single call)
    pull_success, extract_success, move_success, build_success, push_success,
    cleanupAttempted,  \* cleanup_model_files has been called by the sequence
    comp, cpc,         \* the component being executed and the position in it
    ret,               \* "none", "true", "false", or "raised" (an exception escaped)
    exitPath,          \* how it returned: "normal", "guard", "empty", "handler", "escaped"
    imagePresent,      \* the image tag is in the local inventory
    imageRebuilt,      \* the tag names an image built by this run
    container,         \* the temporary container: "none", "created", "removed"
    staging, models,   \* the trees at ./new_models and ./models
    members, mi,       \* the archive's entries and the index of the next one
    walk, root, files, \* the rest of os.walk, the directory and files of the loop body
    files_moved, files_overwritten, files_removed,
    pushLog, success,  \* the push events consumed so far, and the flag
    rmdirDenied,       \* directories whose os.rmdir failed although they were empty
    preStaging, preModels  \* the trees when the current component was called

mainVars == <<mpc, pull_success, extract_success, move_success, build_success,
              push_success, cleanupAttempted>>
frameVars == <<comp, cpc, ret, exitPath>>
dockerVars == <<imagePresent, imageRebuilt, container>>
fsVars == <<staging, models>>
extractVars == <<members, mi>>
walkVars == <<walk, root, files>>
countVars == <<files_moved, files_overwritten, files_removed>>
pushVars == <<pushLog, success>>
histVars == <<rmdirDenied, preStaging, preModels>>
vars == <<mainVars, frameVars, dockerVars, fsVars, extractVars, walkVars,
          countVars, pushVars, histVars>>

Unit == mpc = "unit"
At(c, l) == comp = c /\ cpc = l /\ ret = "none"
Goto(l) == cpc' = l /\ UNCHANGED <<comp, ret, exitPath>>
Return(v, how) == cpc' = "returned" /\ ret' = v /\ exitPath' = how /\ UNCHANGED comp
\* an exception caught by one of the component's except clauses: return False
Handler == Return("false", "handler")
\* an exception raised outside the component's try block
Escape == Return("raised", "escaped")

LocalsInit ==
    /\ members = <<>> /\ mi = 1
    /\ walk = <<>> /\ root = <<>> /\ files = <<>>
    /\ files_moved = 0 /\ files_overwritten = 0 /\ files_removed = 0
    /\ pushLog = <<>> /\ success = TRUE
    /\ rmdirDenied = {}

\* ------------------------------------------------------------- cleanup_model_files
\* a walk that yields a directory before its subdirectories
CleanupWalkTopDown(t) == WalkFrom(t, <<>>, TRUE)
CleanupWalk(t) == WalkFrom(t, <<>>, FALSE)

CleanupStart ==
    /\ At("cleanup", "start")
    /\ IF ~Exists(models, <<>>)
       THEN Return("false", "guard") /\ UNCHANGED walk
       ELSE Goto("loop") /\ walk' = CleanupWalk(models)
    /\ UNCHANGED <<mainVars, dockerVars, fsVars, extractVars, root, files,
                   countVars, pushVars, histVars>>

CleanupNextDir ==
    /\ At("cleanup", "loop") /\ walk # <<>>
    /\ root' = Head(walk).root /\ files' = Head(walk).files /\ walk' = Tail(walk)
    /\ Goto("files")
    /\ UNCHANGED <<mainVars, dockerVars, fsVars, extractVars, countVars, pushVars, histVars>>

CleanupRemoveFile ==
    /\ At("cleanup", "files") /\ files # <<>>
    /\ \E ok \in BOOLEAN :
         IF ok /\ IsFile(models, Append(root, Head(files)))
         THEN /\ models' = RemoveNode(models, Append(root, Head(files)))
              /\ files' = Tail(files)
              /\ files_removed' = files_removed + 1
              /\ Goto("files")
         ELSE Handler /\ UNCHANGED <<models, files, files_removed>>
    /\ UNCHANGED <<mainVars, dockerVars, staging, extractVars, walk, root,
                   files_moved, files_overwritten, pushVars, histVars>>

CleanupRmdir ==
    /\ At("cleanup", "files") /\ files = <<>>
    /\ IF root # <<>>
       THEN \E denied \in BOOLEAN :
              IF ~denied /\ RmdirOk(models, root)
              THEN models' = RemoveNode(models, root) /\ UNCHANGED rmdirDenied
              ELSE /\ UNCHANGED models
                   /\ rmdirDenied' = IF RmdirOk(models, root)
                                     THEN rmdirDenied \cup {root} ELSE rmdirDenied
       ELSE UNCHANGED <<models, rmdirDenied>>
    /\ Goto("loop")
    /\ UNCHANGED <<mainVars, dockerVars, staging, extractVars, walkVars, countVars,
                   pushVars, preStaging, preModels>>

CleanupDone ==
    /\ At("cleanup", "loop") /\ walk = <<>>
    /\ Return("true", "normal")
    /\ UNCHANGED <<mainVars, dockerVars, fsVars, extractVars, walkVars, countVars,
                   pushVars, histVars>>

CleanupStep ==
    CleanupStart \/ CleanupNextDir \/ CleanupRemoveFile \/ CleanupRmdir \/ CleanupDone

\* ------------------------------------------------------------- move_new_models_to_models
\* shutil.copy2(src, dst): a dst that is a directory receives the file under
\* the source's base name
CopyDest(t, target_file, file) ==
    IF IsDir(t, target_file) THEN Append(target_file, file) ELSE target_file

MoveStart ==
    /\ At("move", "start")
    /\ IF ~Exists(staging, <<>>)
       THEN Return("false", "guard") /\ UNCHANGED <<models, walk>>
       ELSE \E ok \in BOOLEAN :
              IF ok /\ MakedirsOk(models, <<>>)
              THEN /\ models' = Makedirs(models, <<>>)
                   /\ walk' = WalkFrom(staging, <<>>, TRUE)
                   /\ Goto("loop")
              ELSE Escape /\ UNCHANGED <<models, walk>>
    /\ UNCHANGED <<mainVars, dockerVars, staging, extractVars, root, files,
                   countVars, pushVars, histVars>>

MoveNextDir ==
    /\ At("move", "loop") /\ walk # <<>>
    /\ \E ok \in BOOLEAN :
         IF ok /\ MakedirsOk(models, Head(walk).root)
         THEN /\ models' = Makedirs(models, Head(walk).root)
              /\ root' = Head(walk).root /\ files' = Head(walk).files
              /\ walk' = Tail(walk)
              /\ Goto("files")
         ELSE Handler /\ UNCHANGED <<models, walkVars>>
    /\ UNCHANGED <<mainVars, dockerVars, staging, extractVars, countVars, pushVars, histVars>>

MoveCopy ==
    /\ At("move", "files") /\ files # <<>>
    /\ LET source_file == Append(root, Head(files))
           target_file == Append(root, Head(files))
           dst == CopyDest(models, target_file, Head(files))
       IN /\ files_overwritten' =
               IF Exists(models, target_file) THEN files_overwritten + 1
               ELSE files_overwritten
          /\ \E outcome \in {"copied", "unopened", "truncated"} :
               IF ~IsFile(staging, source_file) \/ ~OpenOk(models, dst)
                  \/ outcome = "unopened"
               THEN Handler /\ UNCHANGED models
               ELSE IF outcome = "truncated"
               THEN Handler /\ models' = WriteFile(models, dst, "partial")
               ELSE Goto("remove") /\ models' = WriteFile(models, dst, staging[source_file])
    /\ UNCHANGED <<mainVars, dockerVars, staging, extractVars, walkVars, files_moved,
                   files_removed, pushVars, histVars>>

MoveRemove ==
    /\ At("move", "remove")
    /\ \E ok \in BOOLEAN :
         IF ok
         THEN /\ staging' = RemoveNode(staging, Append(root, Head(files)))
              /\ files' = Tail(files)
              /\ files_moved' = files_moved + 1
              /\ Goto("files")
         ELSE Handler /\ UNCHANGED <<staging, files, files_moved>>
    /\ UNCHANGED <<mainVars, dockerVars, models, extractVars, walk, root,
                   files_overwritten, files_removed, pushVars, histVars>>

MoveDirDone ==
    /\ At("move", "files") /\ files = <<>>
    /\ Goto("loop")
    /\ UNCHANGED <<mainVars, dockerVars, fsVars, extractVars, walkVars, countVars,
                   pushVars, histVars>>

MoveDone ==
    /\ At("move", "loop") /\ walk = <<>>
    /\ Return("true", "normal")
    /\ UNCHANGED <<mainVars, dockerVars, fsVars, extractVars, walkVars, countVars,
                   pushVars, histVars>>

MoveStep ==
    MoveStart \/ MoveNextDir \/ MoveCopy \/ MoveRemove \/ MoveDirDone \/ MoveDone

\* ------------------------------------------------------------- extract_models_from_image
\* the archives explored: of MaxNodes entries for a single call, of MainNodes
\* in the top-level sequence
ArchiveChoices == IF Unit THEN ArchivesUpTo(MaxNodes) ELSE ArchivesUpTo(MainNodes)

\* a disposal that leaves the container behind
NotDisposed(c) == c
\* container.remove() that succeeds
Disposed(c) == "removed"

ExtractStart ==
    /\ At("extract", "start")
    /\ \E ok \in BOOLEAN : IF ok THEN Goto("create") ELSE Escape
    /\ UNCHANGED <<mainVars, dockerVars, fsVars, extractVars, walkVars, countVars,
                   pushVars, histVars>>

ExtractCreate ==
    /\ At("extract", "create")
    /\ \E ok \in BOOLEAN :
         IF ok THEN Goto("archive") /\ container' = "created"
         ELSE Handler /\ UNCHANGED container
    /\ UNCHANGED <<mainVars, imagePresent, imageRebuilt, fsVars, extractVars, walkVars,
                   countVars, pushVars, histVars>>

ExtractGetArchive ==
    /\ At("extract", "archive")
    /\ \/ \E ar \in ArchiveChoices : members' = ar /\ Goto("makedirs")
       \/ Handler /\ UNCHANGED members
    /\ UNCHANGED <<mainVars, dockerVars, fsVars, mi, walkVars, countVars, pushVars, histVars>>

ExtractMakedirs ==
    /\ At("extract", "makedirs")
    /\ \E ok \in BOOLEAN :
         IF ok /\ MakedirsOk(models, <<>>)
         THEN Goto("open") /\ models' = Makedirs(models, <<>>)
         ELSE Handler /\ UNCHANGED models
    /\ UNCHANGED <<mainVars, dockerVars, staging, extractVars, walkVars, countVars,
                   pushVars, histVars>>

ExtractOpenTar ==
    /\ At("extract", "open")
    /\ \E ok \in BOOLEAN :
         IF ~ok THEN Handler
         ELSE IF members = <<>> THEN Goto("dispose_empty")
         ELSE Goto("members")
    /\ mi' = 1
    /\ UNCHANGED <<mainVars, dockerVars, fsVars, members, walkVars, countVars,
                   pushVars, histVars>>

ExtractDisposeEmpty ==
    /\ At("extract", "dispose_empty")
    /\ \E ok \in BOOLEAN :
         IF ok THEN Return("false", "empty") /\ container' = Disposed(container)
         ELSE Handler /\ UNCHANGED container
    /\ UNCHANGED <<mainVars, imagePresent, imageRebuilt, fsVars, extractVars, walkVars,
                   countVars, pushVars, histVars>>

ExtractMember ==
    /\ At("extract", "members") /\ mi <= Len(members)
    /\ LET member == members[mi]
           new_path == NewPath(member.name)
           made == Makedirs(models, Parent(new_path))
       IN IF member.isdir
          THEN Goto("members") /\ mi' = mi + 1 /\ UNCHANGED models
          ELSE \E outcome \in {"written", "nodir", "unopened", "truncated"} :
                 IF outcome = "nodir" \/ ~MakedirsOk(models, Parent(new_path))
                 THEN Handler /\ UNCHANGED <<models, mi>>
                 ELSE IF outcome = "unopened" \/ ~OpenOk(made, new_path)
                 THEN Handler /\ models' = made /\ UNCHANGED mi
                 ELSE IF outcome = "truncated"
                 THEN Handler /\ models' = WriteFile(made, new_path, "partial")
                              /\ UNCHANGED mi
                 ELSE /\ models' = WriteFile(made, new_path, member.data)
                      /\ mi' = mi + 1
                      /\ Goto("members")
    /\ UNCHANGED <<mainVars, dockerVars, staging, members, walkVars, countVars,
                   pushVars, histVars>>

ExtractDispose ==
    /\ At("extract", "members") /\ mi > Len(members)
    /\ \E ok \in BOOLEAN :
         IF ok THEN Return("true", "normal") /\ container' = Disposed(container)
         ELSE Handler /\ UNCHANGED container
    /\ UNCHANGED <<mainVars, imagePresent, imageRebuilt, fsVars, extractVars, walkVars,
                   countVars, pushVars, histVars>>

ExtractStep ==
    \/ ExtractStart \/ ExtractCreate \/ ExtractGetArchive \/ ExtractMakedirs
    \/ ExtractOpenTar \/ ExtractDisposeEmpty \/ ExtractMember \/ ExtractDispose

\* ------------------------------------------------------------- pull_docker_image
PullStart ==
    /\ At("pull", "start")
    /\ \E ok \in BOOLEAN : IF ok THEN Goto("stream") ELSE Escape
    /\ UNCHANGED <<mainVars, dockerVars, fsVars, extractVars, walkVars, countVars,
                   pushVars, histVars>>

\* the progress stream is only printed; consumed to its end, the image may or
\* may not have become present
PullStream ==
    /\ At("pull", "stream")
    /\ \/ Handler /\ UNCHANGED imagePresent
       \/ Goto("verify") /\ imagePresent' \in {TRUE, imagePresent}
    /\ UNCHANGED <<mainVars, imageRebuilt, container, fsVars, extractVars, walkVars,
                   countVars, pushVars, histVars>>

PullVerify ==
    /\ At("pull", "verify")
    /\ \E ok \in BOOLEAN :
         IF ~ok THEN Handler
         ELSE IF imagePresent THEN Return("true", "normal")
         ELSE Return("false", "normal")
    /\ UNCHANGED <<mainVars, dockerVars, fsVars, extractVars, walkVars, countVars,
                   pushVars, histVars>>

PullStep == PullStart \/ PullStream \/ PullVerify

\* ------------------------------------------------------------- build_docker_image
BuildStart ==
    /\ At("build", "start")
    /\ \E ok \in BOOLEAN : IF ok THEN Goto("build") ELSE Escape
    /\ UNCHANGED <<mainVars, dockerVars, fsVars, extractVars, walkVars, countVars,
                   pushVars, histVars>>

BuildRun ==
    /\ At("build", "build")
    /\ \/ Handler /\ UNCHANGED <<imagePresent, imageRebuilt>>
       \/ /\ Goto("verify")
          /\ \E tagged \in BOOLEAN :
               /\ imagePresent' = (tagged \/ imagePresent)
               /\ imageRebuilt' = tagged
    /\ UNCHANGED <<mainVars, container, fsVars, extractVars, walkVars, countVars,
                   pushVars, histVars>>

BuildVerify ==
    /\ At("build", "verify")
    /\ \E ok \in BOOLEAN :
         IF ~ok THEN Handler
         ELSE IF imagePresent THEN Return("true", "normal")
         ELSE Return("false", "normal")
    /\ UNCHANGED <<mainVars, dockerVars, fsVars, extractVars, walkVars, countVars,
                   pushVars, histVars>>

BuildStep == BuildStart \/ BuildRun \/ BuildVerify

\* ------------------------------------------------------------- push_docker_image
\* the events explored: MaxEvents for a single call; in the top-level sequence
\* one, which is enough for either result of the push
StreamLimit == IF Unit THEN MaxEvents ELSE 1

\* the branch the loop body takes for an entry
PushBranch(entry) ==
    IF "status" \in entry /\ "id" \in entry THEN "print"
    ELSE IF "status" \in entry THEN "print"
    ELSE IF "error" \in entry THEN "error"
    ELSE "ignore"

PushStart ==
    /\ At("push", "start")
    /\ \E ok \in BOOLEAN : IF ok THEN Goto("tag") ELSE Escape
    /\ UNCHANGED <<mainVars, dockerVars, fsVars, extractVars, walkVars, countVars,
                   pushVars, histVars>>

\* images.get, image.tag, images.push, success = True
PushTag ==
    /\ At("push", "tag")
    /\ \E ok \in BOOLEAN :
         IF ok /\ imagePresent THEN Goto("events") ELSE Handler
    /\ success' = TRUE
    /\ UNCHANGED <<mainVars, dockerVars, fsVars, extractVars, walkVars, countVars,
                   pushLog, histVars>>

PushEvent ==
    /\ At("push", "events") /\ Len(pushLog) < StreamLimit
    /\ \E entry \in Events :
         /\ pushLog' = Append(pushLog, entry)
         /\ IF PushBranch(entry) = "error"
            THEN success' = FALSE /\ Goto("finish")
            ELSE UNCHANGED success /\ Goto("events")
    /\ UNCHANGED <<mainVars, dockerVars, fsVars, extractVars, walkVars, countVars, histVars>>

\* the stream ends, or reading it raises
PushStreamEnd ==
    /\ At("push", "events")
    /\ \E ok \in BOOLEAN : IF ok THEN Goto("finish") ELSE Handler
    /\ UNCHANGED <<mainVars, dockerVars, fsVars, extractVars, walkVars, countVars,
                   pushVars, histVars>>

PushFinish ==
    /\ At("push", "finish")
    /\ IF success THEN Return("true", "normal") ELSE Return("false", "normal")
    /\ UNCHANGED <<mainVars, dockerVars, fsVars, extractVars, walkVars, countVars,
                   pushVars, histVars>>

PushStep == PushStart \/ PushTag \/ PushEvent \/ PushStreamEnd \/ PushFinish

\* ------------------------------------------------------------- the top-level sequence
Steps == <<"pull", "extract", "move", "build", "push", "cleanup">>
After(c) == CASE c = "pull" -> "extract" [] c = "extract" -> "move"
              [] c = "move" -> "build" [] c = "build" -> "push"
              [] c = "push" -> "cleanup" [] c = "cleanup" -> "done"

\* a sequence that cleans up whatever the push returned
CleanupGateAlways == TRUE
\* if pull_success: / if push_success:
ExtractGate == pull_success
CleanupGate == push_success
Gate(c) == CASE c = "extract" -> ExtractGate [] c = "cleanup" -> CleanupGate
             [] OTHER -> TRUE

MainCall ==
    /\ comp = "none" /\ mpc \in {Steps[i] : i \in 1..Len(Steps)} /\ Gate(mpc)
    /\ comp' = mpc /\ cpc' = "start" /\ ret' = "none" /\ exitPath' = "none"
    /\ cleanupAttempted' = (cleanupAttempted \/ mpc = "cleanup")
    /\ preStaging' = staging /\ preModels' = models
    /\ UNCHANGED <<mpc, pull_success, extract_success, move_success, build_success,
                   push_success, dockerVars, fsVars, extractVars, walkVars, countVars,
                   pushVars, rmdirDenied>>

\* extract_success stays False; "Skipping cleanup ... due to failed image push."
MainSkip ==
    /\ comp = "none" /\ mpc \in {"extract", "cleanup"} /\ ~Gate(mpc)
    /\ mpc' = After(mpc)
    /\ UNCHANGED <<pull_success, extract_success, move_success, build_success,
                   push_success, cleanupAttempted, frameVars, dockerVars, fsVars,
                   extractVars, walkVars, countVars, pushVars, histVars>>

MainReturn ==
    /\ comp = mpc /\ ret \in {"true", "false"}
    /\ pull_success' = IF comp = "pull" THEN ret = "true" ELSE pull_success
    /\ extract_success' = IF comp = "extract" THEN ret = "true" ELSE extract_success
    /\ move_success' = IF comp = "move" THEN ret = "true" ELSE move_success
    /\ build_success' = IF comp = "build" THEN ret = "true" ELSE build_success
    /\ push_success' = IF comp = "push" THEN ret = "true" ELSE push_success
    /\ mpc' = After(mpc)
    /\ comp' = "none" /\ cpc' = "idle" /\ ret' = "none" /\ exitPath' = "none"
    /\ members' = <<>> /\ mi' = 1
    /\ walk' = <<>> /\ root' = <<>> /\ files' = <<>>
    /\ files_moved' = 0 /\ files_overwritten' = 0 /\ files_removed' = 0
    /\ pushLog' = <<>> /\ success' = TRUE
    /\ rmdirDenied' = {} /\ preStaging' = NoTree /\ preModels' = NoTree
    /\ UNCHANGED <<cleanupAttempted, dockerVars, fsVars>>

\* an exception that escaped the component ends the script with a traceback
MainCrash ==
    /\ comp = mpc /\ ret = "raised"
    /\ mpc' = "crashed"
    /\ UNCHANGED <<pull_success, extract_success, move_success, build_success,
                   push_success, cleanupAttempted, frameVars, dockerVars, fsVars,
                   extractVars, walkVars, countVars, pushVars, histVars>>

\* ------------------------------------------------------------- specifications
MainIdle ==
    /\ pull_success = FALSE /\ extract_success = FALSE /\ move_success = FALSE
    /\ build_success = FALSE /\ push_success = FALSE /\ cleanupAttempted = FALSE
UnitCall(c) ==
    /\ mpc = "unit" /\ MainIdle
    /\ comp = c /\ cpc = "start" /\ ret = "none" /\ exitPath = "none"
    /\ LocalsInit
    /\ imageRebuilt = FALSE /\ container = "none"
    /\ preStaging = staging /\ preModels = models

Init ==
    /\ mpc = "pull" /\ MainIdle
    /\ comp = "none" /\ cpc = "idle" /\ ret = "none" /\ exitPath = "none"
    /\ LocalsInit
    /\ imagePresent \in BOOLEAN /\ imageRebuilt = FALSE /\ container = "none"
    /\ staging \in {NoTree} \cup TreesUpTo(MainNodes, "new")
    /\ models \in {NoTree, FileRoot} \cup TreesUpTo(MainNodes, "old")
    /\ preStaging = NoTree /\ preModels = NoTree
Next ==
    \/ MainCall \/ MainSkip \/ MainReturn \/ MainCrash
    \/ PullStep \/ ExtractStep \/ MoveStep \/ BuildStep \/ PushStep \/ CleanupStep
Spec == Init /\ [][Next]_vars

InitCleanup ==
    /\ imagePresent = TRUE
    /\ staging = NoTree
    /\ models \in {NoTree} \cup TreesUpTo(MaxNodes, "old")
    /\ UnitCall("cleanup")
SpecCleanup == InitCleanup /\ [][CleanupStep]_vars

InitExtract ==
    /\ imagePresent = TRUE
    /\ staging = NoTree
    /\ models \in {NoTree, FileRoot} \cup TreesUpTo(MaxNodes, "old")
    /\ UnitCall("extract")
SpecExtract == InitExtract /\ [][ExtractStep]_vars

InitPush ==
    /\ imagePresent \in BOOLEAN
    /\ staging = NoTree /\ models = NoTree
    /\ UnitCall("push")
SpecPush == InitPush /\ [][PushStep]_vars

InitMove ==
    /\ imagePresent = TRUE
    /\ staging \in {NoTree} \cup TreesUpTo(MaxNodes, "new")
    /\ models \in {NoTree, FileRoot} \cup TreesUpTo(MaxNodes, "old")
    /\ UnitCall("move")
SpecMove == InitMove /\ [][MoveStep]_vars

\* ------------------------------------------------------------- claims
Subdirs(t) == DirPaths(t) \ {<<>>}
Finished == ret \in {"true", "false"}

\* C1: cleanup_model_files is called only after push_docker_image returned
\* true, a sequence that reaches its end has called it exactly when the push
\* returned true, and as long as it has not been called no step removes a
\* file of the content directory.
C1_CleanupIffPushSucceeded ==
    /\ [](/\ cleanupAttempted => push_success
          /\ mpc = "done" => (cleanupAttempted <=> push_success))
    /\ [][~cleanupAttempted' => FilePaths(models) \subseteq FilePaths(models')]_vars
C1_Witness ==
    /\ mpc = "done" /\ ~push_success /\ ~cleanupAttempted
    /\ build_success /\ move_success /\ extract_success
    /\ FilePaths(models) # {}

\* C2: a step is attempted only if the step it depends on returned true: the
\* extractor after the fetcher, the publisher after the builder, cleanup
\* after the publisher, so cleanup never follows a failed build.
C2_AsStated ==
    /\ comp = "extract" => pull_success
    /\ comp = "push" => build_success
    /\ cleanupAttempted => push_success /\ build_success

\* C3: no exception escapes a component, and the top-level sequence runs to
\* its last step.
C3_AsStated == ret # "raised" /\ mpc # "crashed"

\* C4: push_docker_image returns false whenever a consumed event carries an
\* error field, whatever else the event carries, and consumes nothing after
\* the first such event.
C4_AsStated ==
    comp = "push" =>
      /\ \A i \in 1..(Len(pushLog) - 1) : "error" \notin pushLog[i]
      /\ Finished /\ (\E i \in 1..Len(pushLog) : "error" \in pushLog[i]) => ret = "false"

\* the archive's file entries, and a name with its first segment removed
FileEntries == {i \in 1..Len(members) : ~members[i].isdir}
Stripped(name) == SubSeq(name, 2, Len(name))
OneRoot == \A i \in 1..Len(members) : members[i].name[1] = ArchiveRoot

\* C7, as stated: after extract_models_from_image returns true the files under
\* the output directory are exactly the archive's file entries with the first
\* segment stripped.
C7_AsStated ==
    comp = "extract" /\ ret = "true" /\ OneRoot =>
      FilePaths(models) = {Stripped(members[i].name) : i \in FileEntries}

\* C7, amended: the files under the output directory are those that were
\* there before the call together with the archive's file entries, first
\* segment stripped, each of these holding its entry's content and the others
\* their content of before; no directory entry is written.
C7_ExtractMirrorsArchive ==
    comp = "extract" /\ ret = "true" /\ OneRoot =>
      LET written == {Stripped(members[i].name) : i \in FileEntries}
      IN /\ FilePaths(models) = FilePaths(preModels) \cup written
         /\ \A i \in FileEntries : models[Stripped(members[i].name)] = members[i].data
         /\ \A p \in FilePaths(preModels) \ written : models[p] = preModels[p]
         /\ \A i \in 1..Len(members) :
              members[i].isdir /\ IsFile(models, Stripped(members[i].name))
                => IsFile(preModels, Stripped(members[i].name))
C7_Witness ==
    /\ comp = "extract" /\ ret = "true" /\ OneRoot
    /\ Cardinality(FileEntries) = 2
    /\ \E i \in FileEntries : Len(members[i].name) = 3
    /\ \E p \in FilePaths(preModels) :
         /\ p \notin {Stripped(members[i].name) : i \in FileEntries}
         /\ p \in FilePaths(models)
    /\ \E p \in FilePaths(preModels) : models[p] = "img"

\* C8: an archive of one directory entry and no file entry makes
\* extract_models_from_image return false.
C8_AsStated ==
    comp = "extract" /\ Finished /\ Len(members) = 1 /\ members[1].isdir
      => ret = "false"

\* C9: extract_models_from_image has removed its container when it returns
\* true or returns false for an archive without entries, and leaves it in
\* existence when it returns false from an except clause after creating it.
C9_ContainerDisposal ==
    comp = "extract" /\ Finished =>
      /\ ret = "true" => container = "removed"
      /\ exitPath = "empty" => container = "removed" /\ members = <<>>
      /\ exitPath = "handler" /\ container # "none" => container = "created"
      /\ exitPath \in {"empty", "handler"} \/ ret = "true"
C9_Witness ==
    /\ comp = "extract" /\ ret = "false" /\ exitPath = "handler"
    /\ container = "created" /\ cpc = "returned"
    /\ "partial" \in {models[p] : p \in FilePaths(models)}

C5_AsStated ==
    comp = "move" /\ ret = "true" =>
      /\ FilePaths(staging) = {}
      /\ DirPaths(staging) = DirPaths(preStaging)
      /\ \A p \in FilePaths(preStaging) : IsFile(models, p) /\ models[p] = preStaging[p]

\* C10: in every state of move_new_models_to_models each file staged at the
\* call is still staged with its content or is at its mirrored target path
\* with that content.
C10_AsStated ==
    comp = "move" =>
      \A p \in FilePaths(preStaging) :
        \/ IsFile(staging, p) /\ staging[p] = preStaging[p]
        \/ IsFile(models, p) /\ models[p] = preStaging[p]
====
